---------------------------- MODULE Spec2Model ----------------------------
(***************************************************************************)
(* A model of the car catalogue web application (src/app.py) and of the    *)
(* plotting/statistics helpers it calls (src/analysis_utils.py).           *)
(*                                                                         *)
(* Text is a sequence of one-character strings, so that lowercasing,       *)
(* stripping, splitting, substring search, integer parsing and URL parsing *)
(* are computed the way the code computes them.  A missing cell (pandas    *)
(* NaN) and a number that could not be parsed (NaN, or the None that       *)
(* _to_int returns) are the empty tuple; a number v is <<v>>.              *)
(***************************************************************************)
EXTENDS Integers, Sequences, FiniteSets, TLC

VARIABLES
    df,         \* app.py:21-31  the dataset table, a sequence of records
    session,    \* Flask's session: a mapping with at most the key "favorites"
    request,    \* the request being served (a message in flight)
    response,   \* the response to it, NoResponse while it is being served
    workers,    \* concurrent toggle_favorite requests of one session, by line
    session0    \* history: the session when the concurrent requests started

vars == <<df, session, request, response, workers, session0>>

(***************************************************************************)
(* Bounds of the model.                                                    *)
(***************************************************************************)
MaxRows == 3        \* rows of the CSV file
MaxQLen == 3        \* characters of a free-text query q
MaxActive == 2      \* filter parameters besides q that a request sets
MaxUrlLen == 4      \* characters of a next / referrer URL

----------------------------------------------------------------------------
(***************************************************************************)
(* Python strings.                                                         *)
(***************************************************************************)
NaN == <<>>                 \* a missing text cell (no text cell is empty)
None == <<"None">>          \* an absent request parameter / Python None
NoNum == <<>>               \* a numeric NaN, or None returned by _to_int

Digits == <<"0", "1", "2", "3", "4", "5", "6", "7", "8", "9">>

IsDigit(c) == \E i \in 1..10 : Digits[i] = c

DigitVal(c) == (CHOOSE i \in 1..10 : Digits[i] = c) - 1

IsSpace(c) == c = " "

\* str.lower(), on the letters the model uses
lower_char(c) ==
    CASE c = "T" -> "t"
      [] c = "H" -> "h"
      [] c = "O" -> "o"
      [] c = "N" -> "n"
      [] c = "A" -> "a"
      [] OTHER -> c

lower(s) == [i \in 1..Len(s) |-> lower_char(s[i])]

RECURSIVE lstrip(_)
lstrip(s) ==
    IF s # <<>> /\ IsSpace(Head(s)) THEN lstrip(Tail(s)) ELSE s

RECURSIVE rstrip(_)
rstrip(s) ==
    IF s # <<>> /\ IsSpace(s[Len(s)]) THEN rstrip(SubSeq(s, 1, Len(s) - 1)) ELSE s

\* str.strip()
strip(s) == rstrip(lstrip(s))

\* str.split(): the maximal runs of non-whitespace characters
RECURSIVE split_from(_, _, _)
split_from(s, cur, acc) ==
    IF s = <<>>
    THEN IF cur = <<>> THEN acc ELSE Append(acc, cur)
    ELSE IF IsSpace(Head(s))
         THEN split_from(Tail(s), <<>>, IF cur = <<>> THEN acc ELSE Append(acc, cur))
         ELSE split_from(Tail(s), Append(cur, Head(s)), acc)

split(s) == split_from(s, <<>>, <<>>)

\* " ".join(parts)
RECURSIVE join(_)
join(parts) ==
    IF parts = <<>> THEN <<>>
    ELSE IF Len(parts) = 1 THEN parts[1]
    ELSE parts[1] \o <<" ">> \o join(Tail(parts))

\* the value of a digit string, most significant digit first
RECURSIVE digits_value(_, _)
digits_value(s, acc) ==
    IF s = <<>> THEN acc ELSE digits_value(Tail(s), 10 * acc + DigitVal(Head(s)))

AllDigits(s) == s # <<>> /\ \A i \in 1..Len(s) : IsDigit(s[i])

\* Python's int(text): surrounding whitespace, an optional sign, digits;
\* NoNum stands for the ValueError it raises on anything else.
py_int(text) ==
    LET t == strip(text)
        signed == t # <<>> /\ t[1] \in {"+", "-"}
        body == IF signed THEN Tail(t) ELSE t
    IN  IF ~AllDigits(body) THEN NoNum
        ELSE IF signed /\ t[1] = "-" THEN << 0 - digits_value(body, 0) >>
        ELSE << digits_value(body, 0) >>

\* app.py:34-43
_to_int(x) ==
    IF x = None THEN NoNum
    ELSE IF strip(x) = <<>> THEN NoNum
    ELSE py_int(strip(x))

----------------------------------------------------------------------------
(***************************************************************************)
(* re.search(term, text) as pandas' Series.str.contains(term) calls it     *)
(* (regex=True is its default), for patterns over letters, "." (any        *)
(* character) and "(" (which opens a group; no pattern of the model closes *)
(* one, so re.compile raises re.error on it).                              *)
(***************************************************************************)
re_error(pat) == \E i \in 1..Len(pat) : pat[i] = "("

re_match_at(pat, text, pos) ==
    /\ pos + Len(pat) - 1 <= Len(text)
    /\ \A j \in 1..Len(pat) : pat[j] = "." \/ pat[j] = text[pos + j - 1]

re_search(pat, text) == \E pos \in 1..(Len(text) + 1) : re_match_at(pat, text, pos)

\* app.py:84  haystack.str.contains(term, na=False), for one row
str_contains(hay, term) == re_search(term, hay)

\* the literal test `term in text`
is_substring(term, text) ==
    \E pos \in 1..(Len(text) + 1) :
        /\ pos + Len(term) - 1 <= Len(text)
        /\ \A j \in 1..Len(term) : term[j] = text[pos + j - 1]


----------------------------------------------------------------------------
(***************************************************************************)
(* cars_clean.csv: the cells of the file are text.  A file either has no   *)
(* "id" column or has one; in a file that has one, no two rows carry the   *)
(* same number, but a cell of it may be blank or not a number.             *)
(***************************************************************************)
Row(id, brand, model, body_type, fuel_type, drive_type, transmission, year, horsepower, price_usd) ==
    [id |-> id, brand |-> brand, model |-> model, body_type |-> body_type,
     fuel_type |-> fuel_type, drive_type |-> drive_type,
     transmission |-> transmission, year |-> year, horsepower |-> horsepower,
     price_usd |-> price_usd]

Blank == <<>>

CsvRows == <<
    Row(<<"1">>, <<"T","o">>, <<"c">>, <<"s">>, <<"g">>, <<"f">>, <<"m">>,
        <<"2","0","2","0">>, <<"1","5","0">>, <<"2","0","0","0","0">>),
    Row(<<"5">>, <<"T","o">>, <<"y">>, <<"s">>, <<"g">>, <<"f">>, <<"a">>,
        <<"2","0","2","1">>, <<"1","6","0">>, <<"2","1","0","0","0">>),
    Row(Blank, <<"H","o">>, <<"c">>, <<"s">>, <<"g">>, <<"f">>, <<"m">>,
        <<"2","0","2","0">>, <<"1","4","0">>, <<"1","9","0","0","0">>),
    Row(Blank, Blank, <<"c">>, Blank, <<"g">>, Blank, <<"m">>,
        <<"x">>, Blank, Blank),
    Row(<<"0">>, <<"T","o">>, <<"c">>, <<"s">>, <<"g">>, <<"f">>, <<"m">>,
        <<"2","0","2","2">>, <<"1","8","0">>, <<"2","2","0","0","0">>),
    Row(<<"7">>, <<"T","o">>, <<"c">>, <<"s">>, <<"g">>, <<"f">>, <<"a">>,
        <<"2","0","2","0">>, Blank, Blank),
    Row(<<"x">>, <<"T","o">>, <<"c">>, <<"s">>, <<"g">>, <<"f">>, <<"m">>,
        Blank, <<"1","5","0">>, <<"2","0","0","0","0">>) >>

\* the rows of CsvRows at the positions in S, in file order
RowsAt(S) ==
    LET f[i \in 0..Len(CsvRows)] ==
            IF i = 0 THEN <<>>
            ELSE IF i \in S THEN Append(f[i - 1], CsvRows[i]) ELSE f[i - 1]
    IN  f[Len(CsvRows)]

CsvFiles ==
    { [has_id |-> h, rows |-> RowsAt(S)] :
        h \in BOOLEAN,
        S \in { S \in SUBSET (1..Len(CsvRows)) :
                    Cardinality(S) >= 1 /\ Cardinality(S) <= MaxRows } }

\* pd.read_csv: a blank cell of a text column is NaN
read_text(cell) == IF cell = Blank THEN NaN ELSE cell

\* pd.to_numeric(errors="coerce"): a number, or NaN for anything else
to_numeric(cell) == py_int(cell)

\* .fillna(0).astype(int) of app.py:31
fillna0(num) == IF num = NoNum THEN 0 ELSE num[1]

\* app.py:21-31 (and analysis_utils.py:12-17, which loads the same file)
load(csv) ==
    [i \in 1..Len(csv.rows) |->
        LET r == csv.rows[i]
        IN  [id |-> IF csv.has_id THEN fillna0(to_numeric(r.id)) ELSE i - 1,
             brand |-> read_text(r.brand), model |-> read_text(r.model),
             body_type |-> read_text(r.body_type),
             fuel_type |-> read_text(r.fuel_type),
             drive_type |-> read_text(r.drive_type),
             transmission |-> read_text(r.transmission),
             year |-> to_numeric(r.year), horsepower |-> to_numeric(r.horsepower),
             price_usd |-> to_numeric(r.price_usd)]]

----------------------------------------------------------------------------
(***************************************************************************)
(* The filter engine, app.py:58-124.                                       *)
(***************************************************************************)
\* Python truthiness of a request parameter
truthy(x) == x # None /\ x # <<>>

\* .astype(str) of a text cell
astype_str(cell) == IF cell = NaN THEN <<"n", "a", "n">> ELSE cell

\* app.py:73-80
haystack(r) ==
    lower(join(<< astype_str(r.brand), astype_str(r.model),
                  astype_str(r.body_type), astype_str(r.fuel_type),
                  astype_str(r.drive_type), astype_str(r.transmission) >>))

\* app.py:72
terms_of(q) == split(lower(strip(q)))

\* column == value, column >= n, column <= n on one cell: False on NaN
eq(cell, value) == cell # NaN /\ cell = value

ge(cell, n) == cell # NoNum /\ cell[1] >= n

le(cell, n) == cell # NoNum /\ cell[1] <= n

\* filtered[filtered[col] == value] when value is truthy
by_value(rows, col, value) ==
    IF truthy(value)
    THEN LET keep(r) == eq(r[col], value) IN SelectSeq(rows, keep)
    ELSE rows

by_min(rows, col, bound) ==
    IF bound # NoNum
    THEN LET keep(r) == ge(r[col], bound[1]) IN SelectSeq(rows, keep)
    ELSE rows

by_max(rows, col, bound) ==
    IF bound # NoNum
    THEN LET keep(r) == le(r[col], bound[1]) IN SelectSeq(rows, keep)
    ELSE rows

\* app.py:70-86
by_query(rows, q) ==
    IF truthy(q) /\ strip(q) # <<>>
    THEN LET terms == terms_of(q)
             keep(r) == \A i \in 1..Len(terms) : str_contains(haystack(r), terms[i])
         IN  SelectSeq(rows, keep)
    ELSE rows

\* re.error propagates out of apply_filters
query_raises(q) ==
    /\ truthy(q) /\ strip(q) # <<>>
    /\ \E i \in 1..Len(terms_of(q)) : re_error(terms_of(q)[i])

apply_filters(data, c) ==
    IF query_raises(c.q) THEN [raised |-> TRUE, frame |-> <<>>]
    ELSE
    LET f0 == by_query(data, c.q)
        f1 == by_value(f0, "brand", c.brand)
        f2 == by_value(f1, "model", c.model)
        f3 == by_value(f2, "body_type", c.body_type)
        f4 == by_value(f3, "fuel_type", c.fuel_type)
        f5 == by_value(f4, "drive_type", c.drive_type)
        f6 == by_value(f5, "transmission", c.transmission)
        f7 == by_min(f6, "year", _to_int(c.year_min))
        f8 == by_max(f7, "year", _to_int(c.year_max))
        f9 == by_min(f8, "horsepower", _to_int(c.hp_min))
        f10 == by_max(f9, "horsepower", _to_int(c.hp_max))
        f11 == by_min(f10, "price_usd", _to_int(c.price_min))
        f12 == by_max(f11, "price_usd", _to_int(c.price_max))
    IN  [raised |-> FALSE, frame |-> f12]

----------------------------------------------------------------------------
(***************************************************************************)
(* Requests and responses.  A request carries the query-string arguments   *)
(* of its route (None: the argument is absent); a response carries what    *)
(* the handler hands to the template, the JSON encoder or the redirect.    *)
(***************************************************************************)
Params == {"brand", "model", "body_type", "fuel_type", "drive_type",
           "transmission", "year_min", "year_max", "hp_min", "hp_max",
           "price_min", "price_max"}

NoArgs ==
    [q |-> None, brand |-> None, model |-> None, body_type |-> None,
     fuel_type |-> None, drive_type |-> None, transmission |-> None,
     year_min |-> None, year_max |-> None, hp_min |-> None, hp_max |-> None,
     price_min |-> None, price_max |-> None]

NoRequest ==
    [op |-> "none", args |-> NoArgs, car_id |-> 0, name |-> "",
     next |-> None, referrer |-> None, limit |-> None]

NoResponse ==
    [status |-> 0, cars |-> <<>>, favorites |-> <<>>, car |-> <<>>,
     similar_cars |-> <<>>, price_range_cars |-> <<>>, location |-> <<>>,
     body |-> ""]

Answer(status) == [NoResponse EXCEPT !.status = status]

\* request.args.get(k, "") or ""
arg_or_empty(v) == IF truthy(v) THEN v ELSE <<>>

\* app.py:146-151, 253-258
filters_of(args) == [k \in DOMAIN args |-> arg_or_empty(args[k])]

\* session.get("favorites", [])
session_get(s) == IF "favorites" \in DOMAIN s THEN s["favorites"] ELSE <<>>

\* session["favorites"] = favorites
session_set(s, favorites) ==
    [k \in (DOMAIN s) \cup {"favorites"} |->
        IF k = "favorites" THEN favorites ELSE s[k]]

EmptySession == [k \in {} |-> <<>>]

Pending == request.op # "none" /\ response = NoResponse

Serve(r) == /\ response' = r
            /\ UNCHANGED <<df, session, request, workers, session0>>

\* an unhandled exception: Flask answers 500
InternalError == Answer(500)

----------------------------------------------------------------------------
\* app.py:127-191.  The category lists and basic_stats() that the template
\* also receives are read-only views of the table and are left out.
index ==
    /\ Pending /\ request.op = "index"
    /\ LET filtered_cars == apply_filters(df, filters_of(request.args))
       IN  Serve(IF filtered_cars.raised THEN InternalError
                 ELSE [Answer(200) EXCEPT !.cars = filtered_cars.frame,
                                          !.favorites = session_get(session),
                                          !.body = "index.html"])

\* app.py:250-286
export ==
    /\ Pending /\ request.op = "export"
    /\ LET filtered_cars == apply_filters(df, filters_of(request.args))
       IN  Serve(IF filtered_cars.raised THEN InternalError
                 ELSE [Answer(200) EXCEPT !.cars = filtered_cars.frame,
                                          !.body = "filtered_cars.csv"])

----------------------------------------------------------------------------
(***************************************************************************)
(* /api/search, app.py:308-335.                                            *)
(***************************************************************************)
SearchLimitDefault == 8
SearchLimitMin == 1
SearchLimitMax == 20

Min(a, b) == IF a <= b THEN a ELSE b

Max(a, b) == IF a >= b THEN a ELSE b

\* app.py:317-321
search_limit(text) ==
    IF text = None THEN Max(SearchLimitMin, Min(SearchLimitMax, SearchLimitDefault))
    ELSE IF py_int(text) = NoNum THEN SearchLimitDefault
    ELSE Max(SearchLimitMin, Min(SearchLimitMax, py_int(text)[1]))

\* rows ordered by price_usd ascending, NaN last; sort_values' default
\* quicksort is not stable, so rows of equal price may come in any order
sort_values(rows) ==
    LET n == Len(rows)
        before(a, b) ==
            \/ b.price_usd = NoNum
            \/ a.price_usd # NoNum /\ a.price_usd[1] <= b.price_usd[1]
    IN  { [i \in 1..n |-> rows[p[i]]] :
            p \in { p \in [1..n -> 1..n] :
                      /\ \A i, j \in 1..n : i # j => p[i] # p[j]
                      /\ \A i, j \in 1..n :
                            i < j => before(rows[p[i]], rows[p[j]]) } }

head(rows, n) == SubSeq(rows, 1, Min(n, Len(rows)))

\* result[cols].to_dict(orient="records")
search_cols(rows) ==
    [i \in 1..Len(rows) |->
        [id |-> rows[i].id, brand |-> rows[i].brand, model |-> rows[i].model,
         year |-> rows[i].year, price_usd |-> rows[i].price_usd,
         body_type |-> rows[i].body_type]]

\* the search sorting the shared table itself instead of its filtered copy
api_search_inplace ==
    /\ Pending /\ request.op = "api_search"
    /\ \E sorted \in sort_values(df) :
          /\ df' = sorted
          /\ response' = [Answer(200) EXCEPT
                             !.cars = search_cols(head(sorted, search_limit(request.limit))),
                             !.body = "json"]
    /\ UNCHANGED <<session, request, workers, session0>>

api_search ==
    /\ Pending /\ request.op = "api_search"
    /\ LET q == strip(arg_or_empty(request.args.q))
           brand == strip(arg_or_empty(request.args.brand))
           limit == search_limit(request.limit)
           result == apply_filters(df, [NoArgs EXCEPT !.q = q, !.brand = brand])
       IN  IF Len(q) < 2 /\ ~truthy(brand)
           THEN Serve([Answer(200) EXCEPT !.body = "json"])
           ELSE IF result.raised THEN Serve(InternalError)
           ELSE \E sorted \in sort_values(result.frame) :
                   Serve([Answer(200) EXCEPT
                            !.cars = search_cols(head(sorted, limit)),
                            !.body = "json"])

----------------------------------------------------------------------------
(***************************************************************************)
(* Favorites, app.py:194-213.                                              *)
(***************************************************************************)
Elems(list) == { list[i] : i \in 1..Len(list) }

\* list.remove(x): drops the first occurrence
remove(list, x) ==
    LET at == CHOOSE i \in 1..Len(list) :
                  list[i] = x /\ \A j \in 1..(i - 1) : list[j] # x
    IN  SubSeq(list, 1, at - 1) \o SubSeq(list, at + 1, Len(list))

\* a toggle that never removes
toggle_append(favorites, car_id) == Append(favorites, car_id)

\* app.py:198-201
toggle(favorites, car_id) ==
    IF car_id \in Elems(favorites)
    THEN remove(favorites, car_id)
    ELSE Append(favorites, car_id)

\* url_for("index")
IndexUrl == <<"/">>

IsLetter(c) == c = "h"

\* urllib.parse.urlparse(url), its scheme and netloc, for URLs over letters
\* and "/", ":", "?"
urlparse(url) ==
    LET colons == { i \in 1..Len(url) : url[i] = ":" }
        i == IF colons = {} THEN 0
             ELSE CHOOSE k \in colons : \A m \in colons : k <= m
        has_scheme == i > 1 /\ \A k \in 1..(i - 1) : IsLetter(url[k])
        rest == IF has_scheme THEN SubSeq(url, i + 1, Len(url)) ELSE url
        slashes == Len(rest) >= 2 /\ rest[1] = "/" /\ rest[2] = "/"
        delims == { k \in 3..Len(rest) : rest[k] \in {"/", "?"} }
        stop == IF delims = {} THEN Len(rest) + 1
                ELSE CHOOSE k \in delims : \A m \in delims : k <= m
    IN  [scheme |-> IF has_scheme THEN SubSeq(url, 1, i - 1) ELSE <<>>,
         netloc |-> IF slashes THEN SubSeq(rest, 3, stop - 1) ELSE <<>>]

\* app.py:46-55
_safe_next(next_url) ==
    IF ~truthy(next_url) THEN IndexUrl
    ELSE IF urlparse(next_url).scheme # <<>> \/ urlparse(next_url).netloc # <<>>
         THEN IndexUrl
    ELSE IF next_url[1] # "/" THEN IndexUrl
    ELSE next_url

\* request.args.get("next") or request.referrer or url_for("index")
next_or_referrer(req) ==
    IF truthy(req.next) THEN req.next
    ELSE IF truthy(req.referrer) THEN req.referrer
    ELSE IndexUrl

\* app.py:194-206
toggle_favorite ==
    /\ Pending /\ request.op = "toggle_favorite"
    /\ session' = session_set(session, toggle(session_get(session), request.car_id))
    /\ response' = [Answer(302) EXCEPT
                        !.location = _safe_next(next_or_referrer(request))]
    /\ UNCHANGED <<df, request, workers, session0>>

\* df[df["id"].isin(favorites_ids)]
isin(rows, ids) ==
    LET keep(r) == r.id \in Elems(ids) IN SelectSeq(rows, keep)

\* app.py:209-213
favorites ==
    /\ Pending /\ request.op = "favorites"
    /\ Serve([Answer(200) EXCEPT !.cars = isin(df, session_get(session)),
                                 !.body = "favorites.html"])

----------------------------------------------------------------------------
(***************************************************************************)
(* Recommendations, app.py:216-247.  Numbers are integers; a bound such as *)
(* hp * 0.8 is kept in tenths (8 * hp) and compared with 10 * value.       *)
(***************************************************************************)
\* x * (mult10 / 10) + add, in tenths; NaN stays NaN
tenths(x, mult10, add) ==
    IF x = NoNum THEN NoNum ELSE << x[1] * mult10 + 10 * add >>

\* an interval test that a NaN cell or a NaN bound passes
between_nan_passes(cell, left10, right10) ==
    \/ cell = NoNum \/ left10 = NoNum \/ right10 = NoNum
    \/ left10[1] <= 10 * cell[1] /\ 10 * cell[1] <= right10[1]

\* Series.between(left, right), inclusive, on one cell: False when the
\* cell or a bound is NaN
between(cell, left10, right10) ==
    /\ cell # NoNum /\ left10 # NoNum /\ right10 # NoNum
    /\ left10[1] <= 10 * cell[1]
    /\ 10 * cell[1] <= right10[1]

\* app.py:218
car_row(car_id) ==
    LET keep(r) == r.id = car_id IN SelectSeq(df, keep)

\* the attribute filter without the test that leaves the reference out
similar_with_self(car, car_id) ==
    LET keep(r) ==
            /\ eq(r.brand, car.brand)
            /\ eq(r.body_type, car.body_type)
            /\ between(r.year, tenths(car.year, 10, -1), tenths(car.year, 10, 1))
            /\ between(r.horsepower, tenths(car.horsepower, 8, 0),
                                     tenths(car.horsepower, 12, 0))
    IN  SelectSeq(df, keep)

\* app.py:228-234
similar(car, car_id) ==
    LET keep(r) ==
            /\ eq(r.brand, car.brand)
            /\ eq(r.body_type, car.body_type)
            /\ between(r.year, tenths(car.year, 10, -1), tenths(car.year, 10, 1))
            /\ between(r.horsepower, tenths(car.horsepower, 8, 0),
                                     tenths(car.horsepower, 12, 0))
            /\ r.id # car_id
    IN  SelectSeq(df, keep)

\* app.py:237-240
price_range_cars(car, car_id) ==
    LET keep(r) ==
            /\ between(r.price_usd, tenths(car.price_usd, 9, 0),
                                    tenths(car.price_usd, 11, 0))
            /\ r.id # car_id
    IN  SelectSeq(df, keep)

recommend ==
    /\ Pending /\ request.op = "recommend"
    /\ IF car_row(request.car_id) = <<>>
       THEN Serve([Answer(404) EXCEPT !.body = "not found"])
       ELSE LET car == car_row(request.car_id)[1]
            IN  Serve([Answer(200) EXCEPT
                         !.car = <<car>>,
                         !.similar_cars = similar(car, request.car_id),
                         !.price_range_cars = price_range_cars(car, request.car_id),
                         !.body = "recommend.html"])

----------------------------------------------------------------------------
(***************************************************************************)
(* Charts, app.py:289-302 and analysis_utils.py:61-128: a chart of the     *)
(* rows that have both plotted columns, or a placeholder when none has.    *)
(***************************************************************************)
\* df.dropna(subset=[a, b])
dropna(rows, a, b) ==
    LET keep(r) == r[a] # NaN /\ r[b] # NaN
    IN  SelectSeq(rows, keep)

png_of(rows) == IF rows = <<>> THEN "placeholder.png" ELSE "chart.png"

plot ==
    /\ Pending /\ request.op = "plot"
    /\ Serve(CASE request.name = "brand_price" ->
                    [Answer(200) EXCEPT !.body = png_of(dropna(df, "brand", "price_usd"))]
               [] request.name = "price_year" ->
                    [Answer(200) EXCEPT !.body = png_of(dropna(df, "year", "price_usd"))]
               [] request.name = "price_hp" ->
                    [Answer(200) EXCEPT !.body = png_of(dropna(df, "horsepower", "price_usd"))]
               [] OTHER -> [Answer(404) EXCEPT !.body = "Unknown plot"])

----------------------------------------------------------------------------
(***************************************************************************)
(* The requests the model sends.                                           *)
(***************************************************************************)
SeqsUpTo(A, n) == UNION { [1..k -> A] : k \in 0..n }

Ids == {0, 1, 5}

QChars == {"o", "N", "a", " ", ".", "("}

Queries == SeqsUpTo(QChars, MaxQLen) \cup {None}

ParamValues(p) ==
    CASE p = "brand" -> {<<>>, <<"T","o">>, <<"t","o">>}
      [] p = "model" -> {<<>>, <<"c">>}
      [] p = "body_type" -> {<<>>, <<"s">>}
      [] p = "fuel_type" -> {<<>>, <<"g">>}
      [] p = "drive_type" -> {<<>>, <<"f">>}
      [] p = "transmission" -> {<<>>, <<"a">>}
      [] p = "year_min" -> {<<>>, <<" ">>, <<"x">>, <<"2","0","2","1">>}
      [] p = "year_max" -> {<<>>, <<" ">>, <<"2","o">>, <<" ","2","0","2","0"," ">>}
      [] p = "hp_min" -> {<<>>, <<" ">>, <<"1",".","5">>, <<"1","5","0">>}
      [] p = "hp_max" -> {<<>>, <<" ">>, <<"-">>, <<"+","1","6","0">>}
      [] p = "price_min" -> {<<>>, <<" ">>, <<"1"," ","0">>, <<"2","0","0","0","0">>}
      [] p = "price_max" -> {<<>>, <<" ">>, <<"x">>, <<"-","1">>, <<"2","1","0","0","0">>}

AllParamValues == UNION { ParamValues(p) : p \in Params }

\* the arguments that set q and at most MaxActive other parameters
ArgsWith(q, f) ==
    [k \in DOMAIN NoArgs |->
        IF k = "q" THEN q ELSE IF k \in DOMAIN f THEN f[k] ELSE None]

Settings ==
    UNION { { f \in [P -> AllParamValues] : \A p \in P : f[p] \in ParamValues(p) } :
            P \in { P \in SUBSET Params : Cardinality(P) <= MaxActive } }

FewQueries == { <<"o">>, <<"N","a","N">> }

FilterArgs ==
    { ArgsWith(q, [p \in {} |-> <<>>]) : q \in Queries }
    \cup { ArgsWith(q, f) : q \in FewQueries, f \in Settings }

Limits == { None, <<"1">>, <<"x">>, <<"9","9">>, <<"0">> }

FilterRequests ==
    { [NoRequest EXCEPT !.op = op, !.args = a] :
        op \in {"index", "export"}, a \in FilterArgs }
    \cup { [NoRequest EXCEPT !.op = "api_search", !.args = ArgsWith(q, f)] :
            q \in Queries,
            f \in { f \in Settings : DOMAIN f \subseteq {"brand"} } }
    \cup { [NoRequest EXCEPT !.op = "api_search", !.args = ArgsWith(q, f), !.limit = l] :
            q \in FewQueries,
            f \in { f \in Settings : DOMAIN f \subseteq {"brand"} },
            l \in Limits }

UrlChars == {"/", ":", "?", "h"}

Urls == SeqsUpTo(UrlChars, MaxUrlLen) \cup {None}

Referrers == { None, <<"h",":","/","/","h","/">>, <<"/","h">> }

RedirectRequests ==
    { [NoRequest EXCEPT !.op = "toggle_favorite", !.car_id = 5,
                        !.next = n, !.referrer = r] :
        n \in Urls, r \in Referrers }

\* the requests of the serial application: a few of each route
SomeArgs ==
    { NoArgs,
      [NoArgs EXCEPT !.q = <<"o">>],
      [NoArgs EXCEPT !.q = <<"(">>],
      [NoArgs EXCEPT !.brand = <<"T","o">>, !.year_min = <<"2","0","2","1">>],
      [NoArgs EXCEPT !.hp_max = <<"x">>] }

Requests ==
    { [NoRequest EXCEPT !.op = "index", !.args = a] : a \in SomeArgs }
    \cup { [NoRequest EXCEPT !.op = "export", !.args = a] :
            a \in { NoArgs, [NoArgs EXCEPT !.price_max = <<"2","1","0","0","0">>] } }
    \cup { [NoRequest EXCEPT !.op = "api_search", !.args = a, !.limit = l] :
            a \in { [NoArgs EXCEPT !.q = <<"o">>],
                    [NoArgs EXCEPT !.q = <<"T","o">>],
                    [NoArgs EXCEPT !.brand = <<"T","o">>] },
            l \in { None, <<"1">> } }
    \cup { [NoRequest EXCEPT !.op = "recommend", !.car_id = i] : i \in Ids }
    \cup { [NoRequest EXCEPT !.op = "favorites"] }
    \cup { [NoRequest EXCEPT !.op = "plot", !.name = n] :
            n \in {"brand_price", "price_year", "price_hp", "other"} }
    \cup { [NoRequest EXCEPT !.op = "toggle_favorite", !.car_id = i, !.next = n] :
            i \in Ids, n \in { None, <<"/","h">>, <<"/","/","/","h">> } }

----------------------------------------------------------------------------
(***************************************************************************)
(* Spec: the application serving one request at a time.                    *)
(***************************************************************************)
Init ==
    /\ df \in { load(csv) : csv \in CsvFiles }
    /\ session = EmptySession
    /\ request = NoRequest
    /\ response = NoResponse
    /\ workers = <<>>
    /\ session0 = EmptySession

\* the next request of the session arrives once the last one is answered
Arrive ==
    /\ request.op = "none" \/ response # NoResponse
    /\ request' \in Requests
    /\ response' = NoResponse
    /\ UNCHANGED <<df, session, workers, session0>>

Next ==
    \/ Arrive
    \/ index
    \/ export
    \/ api_search
    \/ recommend
    \/ favorites
    \/ plot
    \/ toggle_favorite

Spec == Init /\ [][Next]_vars

----------------------------------------------------------------------------
(***************************************************************************)
(* SpecFilter: one filter request (/, /export or /api/search) against one  *)
(* table; the request and the table are the inputs of apply_filters.       *)
(***************************************************************************)
InitFilter ==
    /\ df \in { load(csv) : csv \in { f \in CsvFiles : ~f.has_id } }
    /\ session = EmptySession
    /\ request \in FilterRequests
    /\ response = NoResponse
    /\ workers = <<>>
    /\ session0 = EmptySession

NextFilter ==
    \/ index
    \/ export
    \/ api_search

SpecFilter == InitFilter /\ [][NextFilter]_vars

(***************************************************************************)
(* SpecRedirect: one toggle_favorite request with any next URL.            *)
(***************************************************************************)
InitRedirect ==
    /\ df = load([has_id |-> FALSE, rows |-> RowsAt({1, 2, 3})])
    /\ session \in { EmptySession, session_set(EmptySession, <<5>>) }
    /\ request \in RedirectRequests
    /\ response = NoResponse
    /\ workers = <<>>
    /\ session0 = EmptySession

NextRedirect == toggle_favorite

SpecRedirect == InitRedirect /\ [][NextRedirect]_vars

----------------------------------------------------------------------------
(***************************************************************************)
(* SpecConc: two toggle_favorite requests of one session served at the     *)
(* same time.  The handler takes no lock: it reads the session's           *)
(* favorites (line 196), changes its copy (198-201) and stores it (203).   *)
(* Here session is the session's stored state, shared by the two requests. *)
(***************************************************************************)
Workers == {1, 2}

\* the favorites lists that toggling from the empty list produces
FavLists ==
    { f \in SeqsUpTo(Ids, Cardinality(Ids)) :
        \A i, j \in 1..Len(f) : i # j => f[i] # f[j] }

InitConc ==
    /\ df = load([has_id |-> FALSE, rows |-> RowsAt({1, 2, 3})])
    /\ session \in { EmptySession } \cup { session_set(EmptySession, f) : f \in FavLists }
    /\ session0 = session
    /\ request = NoRequest
    /\ response = NoResponse
    /\ workers \in [Workers -> { [pc |-> "read", car_id |-> i, favorites |-> <<>>] :
                                    i \in Ids }]

\* app.py:196
toggle_read(w) ==
    /\ workers[w].pc = "read"
    /\ workers' = [workers EXCEPT ![w].favorites = session_get(session),
                                  ![w].pc = "modify"]
    /\ UNCHANGED <<df, session, request, response, session0>>

\* app.py:198-201
toggle_modify(w) ==
    /\ workers[w].pc = "modify"
    /\ workers' = [workers EXCEPT
                      ![w].favorites = toggle(workers[w].favorites, workers[w].car_id),
                      ![w].pc = "write"]
    /\ UNCHANGED <<df, session, request, response, session0>>

\* app.py:203
toggle_write(w) ==
    /\ workers[w].pc = "write"
    /\ session' = session_set(session, workers[w].favorites)
    /\ workers' = [workers EXCEPT ![w].pc = "done"]
    /\ UNCHANGED <<df, request, response, session0>>

NextConc ==
    \E w \in Workers :
        \/ toggle_read(w)
        \/ toggle_modify(w)
        \/ toggle_write(w)

SpecConc == InitConc /\ [][NextConc]_vars

----------------------------------------------------------------------------
(***************************************************************************)
(* The claims.                                                             *)
(***************************************************************************)
Answered(op) == request.op = op /\ response # NoResponse

Rows(t) == { t[i] : i \in 1..Len(t) }

\* C1: from every favorites list that toggle requests can produce, toggling
\* any id twice gives back the same set of ids; toggling 5 on the empty
\* favorites gives exactly 5, and toggling it again gives the empty list.
C1_ToggleTwice ==
    LET f == session_get(session)
    IN  /\ \A id \in 0..7 : Elems(toggle(toggle(f, id), id)) = Elems(f)
        /\ f = <<>> => toggle(f, 5) = <<5>> /\ toggle(toggle(f, 5), 5) = <<>>

\* 5 was toggled on and off again: the session holds an empty favorites list
C1_Witness ==
    /\ Answered("toggle_favorite") /\ request.car_id = 5
    /\ "favorites" \in DOMAIN session
    /\ session_get(session) = <<>>

\* C2: when both concurrent toggle requests are done, the favorites are
\* what the two toggles give when applied one after the other in some order.
C2_NoLostUpdate ==
    (\A w \in Workers : workers[w].pc = "done") =>
        LET f0 == session_get(session0)
            a == workers[1].car_id
            b == workers[2].car_id
        IN  session_get(session) \in { toggle(toggle(f0, a), b),
                                       toggle(toggle(f0, b), a) }

\* what the specification asks of a record: every term of q is a literal
\* substring of its lowercased text, every non-empty categorical value
\* equals its field, every set bound holds (and the field is not null)
SatisfiesQuery(r, q) ==
    (truthy(q) /\ strip(q) # <<>>) =>
        \A t \in Rows(split(lower(q))) : is_substring(t, haystack(r))

SatisfiesAll(r, c) ==
    /\ SatisfiesQuery(r, c.q)
    /\ \A col \in {"brand", "model", "body_type", "fuel_type", "drive_type",
                   "transmission"} :
          truthy(c[col]) => r[col] # NaN /\ r[col] = c[col]
    /\ _to_int(c.year_min) # NoNum =>
          r.year # NaN /\ r.year[1] >= _to_int(c.year_min)[1]
    /\ _to_int(c.year_max) # NoNum =>
          r.year # NaN /\ r.year[1] <= _to_int(c.year_max)[1]
    /\ _to_int(c.hp_min) # NoNum =>
          r.horsepower # NaN /\ r.horsepower[1] >= _to_int(c.hp_min)[1]
    /\ _to_int(c.hp_max) # NoNum =>
          r.horsepower # NaN /\ r.horsepower[1] <= _to_int(c.hp_max)[1]
    /\ _to_int(c.price_min) # NoNum =>
          r.price_usd # NaN /\ r.price_usd[1] >= _to_int(c.price_min)[1]
    /\ _to_int(c.price_max) # NoNum =>
          r.price_usd # NaN /\ r.price_usd[1] <= _to_int(c.price_max)[1]

Matching(c) == LET keep(r) == SatisfiesAll(r, c) IN SelectSeq(df, keep)

\* C3: the records a filter request returns are exactly the records of the
\* table that satisfy every supplied constraint, in table order.
C3_ExactlyTheMatching ==
    ((Answered("index") \/ Answered("export")) /\ response.status = 200) =>
        response.cars = Matching(request.args)

\* C4: a request that sets only q is answered with exactly the records
\* whose text contains every whitespace-separated term of the lowercased q
\* as a literal substring (all records when q is empty after trimming).
C4_LiteralTerms ==
    ((Answered("index") \/ Answered("export"))
        /\ response.status = 200
        /\ \A p \in Params : request.args[p] = None) =>
        response.cars =
            LET keep(r) == SatisfiesQuery(r, request.args.q)
            IN  SelectSeq(df, keep)

\* text that Python's int() accepts: optional sign and digits, whitespace
\* around them
IsIntegerText(x) ==
    /\ x # None
    /\ LET t == strip(x)
       IN  /\ t # <<>>
           /\ \/ AllDigits(t)
              \/ t[1] \in {"+", "-"} /\ AllDigits(Tail(t))

\* C5: a numeric parameter that is absent, empty, blank or no integer is
\* no constraint (_to_int gives None and the result is that of the request
\* without it), and no filter input ends in an error.
C5_InvalidInputIgnored ==
    (Answered("index") \/ Answered("export")) =>
        /\ response.status = 200
        /\ \A p \in {"year_min", "year_max", "hp_min", "hp_max", "price_min",
                     "price_max"} :
              ~IsIntegerText(request.args[p]) =>
                  /\ _to_int(request.args[p]) = NoNum
                  /\ response.cars =
                        apply_filters(df, filters_of([request.args EXCEPT ![p] = None])).frame

\* How a browser resolves a Location against the page's http URL (WHATWG
\* URL parsing): a leading scheme makes it absolute; otherwise two or more
\* leading slashes start an authority, whose host follows the slashes.
BrowserScheme(url) == urlparse(url).scheme # <<>>

RECURSIVE SkipSlashes(_)
SkipSlashes(url) ==
    IF url # <<>> /\ Head(url) = "/" THEN SkipSlashes(Tail(url)) ELSE url

BrowserHost(url) ==
    IF Len(url) >= 2 /\ url[1] = "/" /\ url[2] = "/"
    THEN LET rest == SkipSlashes(url)
             ends == { k \in 1..Len(rest) : ~IsLetter(rest[k]) }
             stop == IF ends = {} THEN Len(rest) + 1
                     ELSE CHOOSE k \in ends : \A m \in ends : k <= m
         IN  SubSeq(rest, 1, stop - 1)
    ELSE <<>>

SameOriginPath(url) ==
    /\ url # <<>> /\ url[1] = "/"
    /\ ~BrowserScheme(url)
    /\ BrowserHost(url) = <<>>

\* C6: toggle_favorite redirects to "/" or to a caller-supplied same-origin
\* relative path, never to another origin.
C6_RedirectStaysOnSite ==
    Answered("toggle_favorite") =>
        \/ response.location = IndexUrl
        \/ /\ response.location \in {request.next, request.referrer}
           /\ SameOriginPath(response.location)

\* C7: the reference record has the requested id; a record similar by
\* attributes is another record of the table with the reference's brand and
\* body type, a year within one of the reference's and a horsepower within
\* 20% of it; a record similar by price is not the reference either.
C7_SimilarWithinWindows ==
    (Answered("recommend") /\ response.status = 200) =>
        LET R == response.car[1]
        IN  /\ R \in Rows(df) /\ R.id = request.car_id
            /\ \A r \in Rows(response.similar_cars) :
                  /\ r \in Rows(df)
                  /\ r.id # request.car_id
                  /\ r.brand = R.brand /\ r.body_type = R.body_type
                  /\ r.year # NaN /\ R.year # NaN
                  /\ R.year[1] - 1 <= r.year[1] /\ r.year[1] <= R.year[1] + 1
                  /\ r.horsepower # NaN /\ R.horsepower # NaN
                  /\ 8 * R.horsepower[1] <= 10 * r.horsepower[1]
                  /\ 10 * r.horsepower[1] <= 12 * R.horsepower[1]
            /\ \A r \in Rows(response.price_range_cars) :
                  r \in Rows(df) /\ r.id # request.car_id

\* both lists are non-empty, and the table holds a record of the
\* reference's brand that is left out of the similar ones
C7_Witness ==
    /\ Answered("recommend") /\ response.status = 200
    /\ response.similar_cars # <<>>
    /\ response.price_range_cars # <<>>
    /\ \E r \in Rows(df) :
          /\ r.brand = response.car[1].brand
          /\ r.id # request.car_id
          /\ r \notin Rows(response.similar_cars)

\* C8: no two records of the table have the same id.
C8_UniqueIds ==
    \A i, j \in 1..Len(df) : i # j => df[i].id # df[j].id

\* C9: no step changes the table, and only the handling of a
\* toggle_favorite request changes the session.
C9_TableReadOnly ==
    [][ /\ df' = df
        /\ session' # session => (request.op = "toggle_favorite" /\ Pending) ]_vars

\* a search that returned two records, in a session that has favorites
C9_Witness ==
    /\ Answered("api_search") /\ Len(response.cars) >= 2
    /\ session_get(session) # <<>>

\* C10: a recommend request for an id of the table is answered normally;
\* a reference without year or horsepower has no record similar by
\* attributes, one without price none similar by price, and no record
\* without year or horsepower is similar by attributes.
C10_NullFailsClosed ==
    (Answered("recommend") /\ (\E r \in Rows(df) : r.id = request.car_id)) =>
        /\ response.status = 200
        /\ LET R == response.car[1]
           IN  /\ (R.year = NaN \/ R.horsepower = NaN) => response.similar_cars = <<>>
               /\ R.price_usd = NaN => response.price_range_cars = <<>>
               /\ \A r \in Rows(response.similar_cars) :
                     r.year # NaN /\ r.horsepower # NaN

\* the reference has no year, and the table holds another record of its
\* brand and body type with a horsepower within the window
C10_Witness ==
    /\ Answered("recommend") /\ response.status = 200
    /\ response.car[1].year = NaN /\ response.car[1].horsepower # NaN
    /\ response.similar_cars = <<>>
    /\ \E r \in Rows(df) :
          /\ r.id # request.car_id
          /\ r.brand = response.car[1].brand
          /\ r.body_type = response.car[1].body_type
          /\ r.year # NaN /\ r.horsepower = response.car[1].horsepower

============================================================================
